---- MODULE Spec2Model ----
(***************************************************************************)
(* Sources/LlamaCppAdapter/include/llama_adapter.h as a state machine.     *)
(*                                                                         *)
(* The header holds no function bodies, so the behaviour it has is the     *)
(* behaviour of a translation unit that includes it and of a client that   *)
(* uses what it declares:                                                  *)
(*   - translation: the preprocessor and the declaration pass walk the     *)
(*     header line by line (include guard, #ifdef __cplusplus, comments,   *)
(*     typedefs, struct members, prototypes);                              *)
(*   - run: the client calls the functions the translation declared, with  *)
(*     arguments of the declared parameter types, and builds values of the *)
(*     declared parameter structs.                                         *)
(* Header[i] is line i of the file.                                        *)
(***************************************************************************)
EXTENDS Integers, Sequences, FiniteSets, TLC

VARIABLES
    phase,      \* "translate" | "run"
    pc,         \* line of the header being processed; 0: not inside the header
    included,   \* completed #include "llama_adapter.h" directives
    macros,     \* defined preprocessor macros
    cond,       \* stack of open #if groups: TRUE = group is taken
    linkage,    \* stack of language linkages; the top one applies
    inStruct,   \* between "typedef struct {" and "} name;"
    cur,        \* members of the struct being declared
    typedefs,   \* typedef declarations, in order, one entry per declaration
    functions,  \* function declarations, in order, one entry per declaration
    calls,      \* calls the client has made
    models,     \* live llama_model handles the client holds
    contexts,   \* live llama_context handles the client holds
    mparams,    \* llama_adapter_model_params values the client holds
    cparams,    \* llama_adapter_context_params values the client holds
    sparams     \* llama_adapter_sampling_params values the client holds

vars == <<phase, pc, included, macros, cond, linkage, inStruct, cur, typedefs,
          functions, calls, models, contexts, mparams, cparams, sparams>>

tuVars == <<pc, included, macros, cond, linkage, inStruct, cur, typedefs, functions>>
runVars == <<calls, models, contexts>>
paramVars == <<mparams, cparams, sparams>>

---------------------------------------------------------------------------
(* Bounds *)

MaxIncludes == 2
MaxCalls == 3
MaxHandles == 2

---------------------------------------------------------------------------
(* The header text.  A line is [c, kind, a, b, ps]:                        *)
(*   c    the line starts with "//" (a line comment)                       *)
(*   kind what the line holds                                              *)
(*   a, b two words of it (macro; type and name; return type and name)     *)
(*   ps   a prototype's parameter types                                    *)

L(c, kind, a, b, ps) == [c |-> c, kind |-> kind, a |-> a, b |-> b, ps |-> ps]

Blank == L(FALSE, "blank", "", "", <<>>)
Comment == L(TRUE, "text", "", "", <<>>)
Member(type, name) == L(FALSE, "member", type, name, <<>>)
Proto(ret, name, ps) == L(FALSE, "proto", ret, name, ps)
CommentedProto(ret, name, ps) == L(TRUE, "proto", ret, name, ps)

\* Variant: the guard macro is tested but never defined.
GuardOpenNoDefine ==
    << L(FALSE, "ifndef", "LLAMA_CPP_ADAPTER_H", "", <<>>),
       Blank >>

\* lines 1-2
GuardOpen ==
    << L(FALSE, "ifndef", "LLAMA_CPP_ADAPTER_H", "", <<>>),
       L(FALSE, "define", "LLAMA_CPP_ADAPTER_H", "", <<>>) >>

\* lines 3-14
LinkageOpen ==
    << Blank, Comment, Comment, Comment, Blank,
       L(FALSE, "ifdef", "__cplusplus", "", <<>>),
       L(FALSE, "extern_open", "C", "", <<>>),
       L(FALSE, "endif", "", "", <<>>),
       Blank,
       L(FALSE, "include", "stdint.h", "", <<>>),
       L(FALSE, "include", "stdbool.h", "", <<>>),
       Blank >>

\* lines 15-20
ForwardDecls ==
    << Comment, Comment,
       L(FALSE, "typedef_opaque", "llama_model", "llama_model", <<>>),
       L(FALSE, "typedef_opaque", "llama_context", "llama_context", <<>>),
       L(FALSE, "typedef_alias", "int32_t", "llama_token", <<>>),
       Blank >>

\* Variant: n_threads declared with the platform's int.
ModelParamsDeclIntThreads ==
    << Comment,
       L(FALSE, "struct_open", "", "", <<>>),
       Member("int32_t", "n_gpu_layers"),
       Member("bool", "use_mmap"),
       Member("bool", "use_mlock"),
       Member("int", "n_threads"),
       L(FALSE, "struct_close", "", "llama_adapter_model_params", <<>>),
       Blank >>

\* lines 21-28
ModelParamsDecl ==
    << Comment,
       L(FALSE, "struct_open", "", "", <<>>),
       Member("int32_t", "n_gpu_layers"),
       Member("bool", "use_mmap"),
       Member("bool", "use_mlock"),
       Member("int32_t", "n_threads"),
       L(FALSE, "struct_close", "", "llama_adapter_model_params", <<>>),
       Blank >>

\* Variant: n_threads declared unsigned, as n_ctx and n_batch are.
ContextParamsDeclUnsignedThreads ==
    << Comment,
       L(FALSE, "struct_open", "", "", <<>>),
       Member("uint32_t", "n_ctx"),
       Member("uint32_t", "n_batch"),
       Member("uint32_t", "n_threads"),
       Member("bool", "use_metal"),
       L(FALSE, "struct_close", "", "llama_adapter_context_params", <<>>),
       Blank >>

\* lines 29-36
ContextParamsDecl ==
    << Comment,
       L(FALSE, "struct_open", "", "", <<>>),
       Member("uint32_t", "n_ctx"),
       Member("uint32_t", "n_batch"),
       Member("int32_t", "n_threads"),
       Member("bool", "use_metal"),
       L(FALSE, "struct_close", "", "llama_adapter_context_params", <<>>),
       Blank >>

\* Variant: the n_predict member is commented out.
SamplingParamsDeclNoPredict ==
    << Comment,
       L(FALSE, "struct_open", "", "", <<>>),
       Member("float", "temperature"),
       Member("float", "top_p"),
       Member("int32_t", "top_k"),
       L(TRUE, "member", "int32_t", "n_predict", <<>>),
       L(FALSE, "struct_close", "", "llama_adapter_sampling_params", <<>>),
       Blank >>

\* lines 37-44
SamplingParamsDecl ==
    << Comment,
       L(FALSE, "struct_open", "", "", <<>>),
       Member("float", "temperature"),
       Member("float", "top_p"),
       Member("int32_t", "top_k"),
       Member("int32_t", "n_predict"),
       L(FALSE, "struct_close", "", "llama_adapter_sampling_params", <<>>),
       Blank >>

\* Variant: backend initialization reports a status.
BackendDeclsInitStatus ==
    << Comment, Comment, Blank, Comment,
       Proto("int", "llama_adapter_backend_init", <<"bool">>),
       Proto("void", "llama_adapter_backend_free", <<"void">>),
       Blank >>

\* lines 45-51
BackendDecls ==
    << Comment, Comment, Blank, Comment,
       Proto("void", "llama_adapter_backend_init", <<"bool">>),
       Proto("void", "llama_adapter_backend_free", <<"void">>),
       Blank >>

\* Variant: the llama_adapter_free_model prototype is not commented out.
PlaceholderDeclsFreeModelLive ==
    << Comment,
       CommentedProto("llama_model*", "llama_adapter_load_model",
                      <<"const char*", "llama_adapter_model_params">>),
       Proto("void", "llama_adapter_free_model", <<"llama_model*">>),
       Blank,
       Comment,
       CommentedProto("llama_context*", "llama_adapter_new_context",
                      <<"llama_model*", "llama_adapter_context_params">>),
       CommentedProto("void", "llama_adapter_free_context", <<"llama_context*">>),
       Blank,
       Comment,
       CommentedProto("int32_t", "llama_adapter_tokenize",
                      <<"llama_context*", "const char*", "llama_token*", "int32_t", "bool">>),
       CommentedProto("const char*", "llama_adapter_token_to_str",
                      <<"llama_context*", "llama_token">>),
       Blank,
       Comment,
       CommentedProto("int", "llama_adapter_eval",
                      <<"llama_context*", "llama_token*", "int32_t", "int32_t">>),
       CommentedProto("llama_token", "llama_adapter_sample_token",
                      <<"llama_context*", "llama_adapter_sampling_params">>),
       Blank >>

\* Variant: the llama_adapter_load_model prototype is not commented out.
PlaceholderDeclsLoadModelLive ==
    << Comment,
       Proto("llama_model*", "llama_adapter_load_model",
             <<"const char*", "llama_adapter_model_params">>),
       CommentedProto("void", "llama_adapter_free_model", <<"llama_model*">>),
       Blank,
       Comment,
       CommentedProto("llama_context*", "llama_adapter_new_context",
                      <<"llama_model*", "llama_adapter_context_params">>),
       CommentedProto("void", "llama_adapter_free_context", <<"llama_context*">>),
       Blank,
       Comment,
       CommentedProto("int32_t", "llama_adapter_tokenize",
                      <<"llama_context*", "const char*", "llama_token*", "int32_t", "bool">>),
       CommentedProto("const char*", "llama_adapter_token_to_str",
                      <<"llama_context*", "llama_token">>),
       Blank,
       Comment,
       CommentedProto("int", "llama_adapter_eval",
                      <<"llama_context*", "llama_token*", "int32_t", "int32_t">>),
       CommentedProto("llama_token", "llama_adapter_sample_token",
                      <<"llama_context*", "llama_adapter_sampling_params">>),
       Blank >>

\* lines 52-67
PlaceholderDecls ==
    << Comment,
       CommentedProto("llama_model*", "llama_adapter_load_model",
                      <<"const char*", "llama_adapter_model_params">>),
       CommentedProto("void", "llama_adapter_free_model", <<"llama_model*">>),
       Blank,
       Comment,
       CommentedProto("llama_context*", "llama_adapter_new_context",
                      <<"llama_model*", "llama_adapter_context_params">>),
       CommentedProto("void", "llama_adapter_free_context", <<"llama_context*">>),
       Blank,
       Comment,
       CommentedProto("int32_t", "llama_adapter_tokenize",
                      <<"llama_context*", "const char*", "llama_token*", "int32_t", "bool">>),
       CommentedProto("const char*", "llama_adapter_token_to_str",
                      <<"llama_context*", "llama_token">>),
       Blank,
       Comment,
       CommentedProto("int", "llama_adapter_eval",
                      <<"llama_context*", "llama_token*", "int32_t", "int32_t">>),
       CommentedProto("llama_token", "llama_adapter_sample_token",
                      <<"llama_context*", "llama_adapter_sampling_params">>),
       Blank >>

\* lines 68-72
GuardClose ==
    << L(FALSE, "ifdef", "__cplusplus", "", <<>>),
       L(FALSE, "extern_close", "", "", <<>>),
       L(FALSE, "endif", "", "", <<>>),
       Blank,
       L(FALSE, "endif", "", "", <<>>) >>

Header ==
    GuardOpen \o LinkageOpen \o ForwardDecls \o ModelParamsDecl \o ContextParamsDecl
    \o SamplingParamsDecl \o BackendDecls \o PlaceholderDecls \o GuardClose

---------------------------------------------------------------------------
(* Translation *)

\* A line is compiled when every open #if group is taken.
Active == \A i \in 1..Len(cond) : cond[i]

Push(s, x) == <<x>> \o s
Pop(s) == Tail(s)

\* <stdint.h> and <stdbool.h>: the type names they provide.  Both carry their
\* own guards, so a second inclusion adds nothing.
SystemTypes(file) ==
    CASE file = "stdint.h" -> <<"int32_t", "uint32_t">>
      [] file = "stdbool.h" -> <<"bool">>
      [] OTHER -> <<>>

TypedefNames == {typedefs[i].name : i \in 1..Len(typedefs)}

TD(name, kind, target, fields) ==
    [name |-> name, kind |-> kind, target |-> target, fields |-> fields]

RECURSIVE SystemTypedefs(_, _)
SystemTypedefs(names, have) ==
    IF names = <<>> THEN <<>>
    ELSE LET rest == SystemTypedefs(Tail(names), have \cup {Head(names)})
         IN IF Head(names) \in have THEN rest
            ELSE <<TD(Head(names), "system", "", <<>>)>> \o rest

\* f(void) declares a function of no parameters.
ParamList(ps) == IF ps = <<"void">> THEN <<>> ELSE ps

FD(line) ==
    [name |-> line.b, ret |-> line.a, params |-> ParamList(line.ps),
     linkage |-> Head(linkage)]

IsComment(line) == line.c

\* #include "llama_adapter.h" in the translation unit: the header is entered.
Include ==
    /\ phase = "translate"
    /\ pc = 0
    /\ included < MaxIncludes
    /\ pc' = 1
    /\ UNCHANGED <<phase, included, macros, cond, linkage, inStruct, cur, typedefs,
                   functions, runVars, paramVars>>

\* The end of the header: control returns to the including file.
EndOfHeader ==
    /\ phase = "translate"
    /\ pc = Len(Header) + 1
    /\ pc' = 0
    /\ included' = included + 1
    /\ UNCHANGED <<phase, macros, cond, linkage, inStruct, cur, typedefs, functions,
                   runVars, paramVars>>

\* A comment line, a blank line, or any line inside a group that is not taken.
SkipLine ==
    LET line == Header[pc] IN
    /\ \/ IsComment(line)
       \/ line.kind = "blank"
       \/ ~Active /\ line.kind \notin {"ifndef", "ifdef", "endif"}
    /\ UNCHANGED <<macros, cond, linkage, inStruct, cur, typedefs, functions>>

\* #ifndef, #ifdef, #endif: followed in skipped groups too, to pair each #endif.
Conditional ==
    LET line == Header[pc] IN
    /\ ~IsComment(line)
    /\ \/ /\ line.kind = "ifndef"
          /\ cond' = Push(cond, line.a \notin macros)
       \/ /\ line.kind = "ifdef"
          /\ cond' = Push(cond, line.a \in macros)
       \/ /\ line.kind = "endif"
          /\ cond' = Pop(cond)
    /\ UNCHANGED <<macros, linkage, inStruct, cur, typedefs, functions>>

\* #define, #include <...>, extern "C" { and its closing brace.
Directive ==
    LET line == Header[pc] IN
    /\ ~IsComment(line)
    /\ Active
    /\ \/ /\ line.kind = "define"
          /\ macros' = macros \cup {line.a}
          /\ UNCHANGED <<linkage, typedefs>>
       \/ /\ line.kind = "include"
          /\ typedefs' = typedefs \o SystemTypedefs(SystemTypes(line.a), TypedefNames)
          /\ UNCHANGED <<macros, linkage>>
       \/ /\ line.kind = "extern_open"
          /\ linkage' = Push(linkage, line.a)
          /\ UNCHANGED <<macros, typedefs>>
       \/ /\ line.kind = "extern_close"
          /\ linkage' = Pop(linkage)
          /\ UNCHANGED <<macros, typedefs>>
    /\ UNCHANGED <<cond, inStruct, cur, functions>>

\* typedef struct T T;  typedef int32_t T;  typedef struct { members } T;
Typedef ==
    LET line == Header[pc] IN
    /\ ~IsComment(line)
    /\ Active
    /\ \/ /\ line.kind = "typedef_opaque"
          /\ typedefs' = Append(typedefs, TD(line.b, "opaque", line.a, <<>>))
          /\ UNCHANGED <<inStruct, cur>>
       \/ /\ line.kind = "typedef_alias"
          /\ typedefs' = Append(typedefs, TD(line.b, "alias", line.a, <<>>))
          /\ UNCHANGED <<inStruct, cur>>
       \/ /\ line.kind = "struct_open"
          /\ inStruct' = TRUE
          /\ cur' = <<>>
          /\ UNCHANGED typedefs
       \/ /\ line.kind = "member"
          /\ inStruct
          /\ cur' = Append(cur, [type |-> line.a, name |-> line.b])
          /\ UNCHANGED <<inStruct, typedefs>>
       \/ /\ line.kind = "struct_close"
          /\ inStruct
          /\ typedefs' = Append(typedefs, TD(line.b, "struct", "", cur))
          /\ inStruct' = FALSE
          /\ cur' = <<>>
    /\ UNCHANGED <<macros, cond, linkage, functions>>

\* A function prototype.
Prototype ==
    LET line == Header[pc] IN
    /\ ~IsComment(line)
    /\ Active
    /\ line.kind = "proto"
    /\ functions' = Append(functions, FD(line))
    /\ UNCHANGED <<macros, cond, linkage, inStruct, cur, typedefs>>

\* One line of the header.
Line ==
    /\ phase = "translate"
    /\ pc \in 1..Len(Header)
    /\ \/ SkipLine
       \/ Conditional
       \/ Directive
       \/ Typedef
       \/ Prototype
    /\ pc' = pc + 1
    /\ UNCHANGED <<phase, included, runVars, paramVars>>

Handles == 1..MaxHandles

\* The translation unit ends after at least one inclusion; the program runs.
\* llama_model and llama_context are the wrapped library's types: the handles
\* a client holds when it starts using the adapter were made by that library.
Run ==
    /\ phase = "translate"
    /\ pc = 0
    /\ included >= 1
    /\ phase' = "run"
    /\ models' \in SUBSET Handles
    /\ contexts' \in SUBSET Handles
    /\ UNCHANGED <<tuVars, calls, paramVars>>

---------------------------------------------------------------------------
(* Run: the client uses what the translation declared *)

\* The declarations of a function name.
Declared(f) == {functions[i] : i \in {j \in 1..Len(functions) : functions[j].name = f}}

\* The declaration of a typedef name.
TypedefsOf(n) == {typedefs[i] : i \in {j \in 1..Len(typedefs) : typedefs[j].name = n}}

\* The member types of a declared struct.
MemberTypes(td) == [i \in 1..Len(td.fields) |-> td.fields[i].type]

\* Inputs of integer type are drawn from these.
IntCandidates == {-1, 0, 2147483647}
\* Inputs of type float are drawn from these (the literal's spelling).
FloatCandidates == {"0.8f"}
\* Inputs of type const char* are drawn from these.
StringCandidates == {"model.gguf"}

\* The values of a type a parameter or a member can have: a type of
\* <stdint.h> or <stdbool.h> once that header is included, float, a string, a
\* handle the client holds, or a type the header declares (a typedef of
\* another type, or a struct: one value of each member's type, with no
\* constraint between members or on a member's value).  The candidates stay
\* below 2^31, so uint32_t's upper limit (2^32 - 1) excludes none of them.
RECURSIVE TypeValues(_), Tuples(_)
TypeValues(t) ==
    CASE t = "bool" /\ t \in TypedefNames -> BOOLEAN
      [] t = "int32_t" /\ t \in TypedefNames ->
            {n \in IntCandidates : -2147483647 - 1 <= n /\ n <= 2147483647}
      [] t = "uint32_t" /\ t \in TypedefNames -> {n \in IntCandidates : 0 <= n}
      [] t = "float" -> FloatCandidates
      [] t = "const char*" -> StringCandidates
      [] t = "llama_model*" -> models
      [] t = "llama_context*" -> contexts
      [] OTHER ->
            UNION { CASE td.kind = "alias" -> TypeValues(td.target)
                      [] td.kind = "struct" -> Tuples(MemberTypes(td))
                      [] OTHER -> {}
                    : td \in TypedefsOf(t) }

\* The tuples of values of a list of types.
Tuples(types) ==
    IF types = <<>> THEN {<<>>}
    ELSE {<<x>> \o rest : x \in TypeValues(Head(types)), rest \in Tuples(Tail(types))}

\* The handles among a call's arguments.
Passed(d, args, type) == {args[i] : i \in {j \in 1..Len(args) : d.params[j] = type}}

\* What a call can do to the handles the client holds: it can hand over a new
\* one only as its return value and release only one it was passed.
HandlesAfter(held, d, args, type) ==
    {(held \ freed) \cup made :
        freed \in SUBSET Passed(d, args, type),
        made \in IF d.ret = type THEN {{h} : h \in Handles \ held} ELSE {{}}}

\* Variant: the backend's lifecycle is a precondition of its two functions:
\* backend_free needs a backend_init before it that no backend_free has
\* matched, backend_init needs there to be none.
CallableInLifecycle(d, args) ==
    LET open == Cardinality({i \in 1..Len(calls) : calls[i].name = "llama_adapter_backend_init"})
              - Cardinality({i \in 1..Len(calls) : calls[i].name = "llama_adapter_backend_free"})
    IN /\ args \in Tuples(d.params)
       /\ d.name = "llama_adapter_backend_free" => open > 0
       /\ d.name = "llama_adapter_backend_init" => open = 0

\* A call type-checks when the arguments have the declared parameters' types;
\* the declarations state no other precondition.
Callable(d, args) == args \in Tuples(d.params)

\* The client calls function f with arguments args.
CallWith(f, args) ==
    /\ phase = "run"
    /\ Len(calls) < MaxCalls
    /\ \E d \in Declared(f) :
        /\ Callable(d, args)
        /\ calls' = Append(calls, [name |-> f, args |-> args, ret |-> d.ret])
        /\ models' \in HandlesAfter(models, d, args, "llama_model*")
        /\ contexts' \in HandlesAfter(contexts, d, args, "llama_context*")
    /\ UNCHANGED <<phase, tuVars, paramVars>>

\* The argument lists a call of f can be given.
ArgLists(f) == UNION {Tuples(d.params) : d \in Declared(f)}

\* The client calls function f.
Call(f) == \E args \in ArgLists(f) : CallWith(f, args)

\* Every function name the header spells, in a declaration or in a comment.
PrototypeNames == {Header[i].b : i \in {j \in 1..Len(Header) : Header[j].kind = "proto"}}

CallAny == \E f \in PrototypeNames : Call(f)

\* The values of a parameter struct.
StructValues(n) == TypeValues(n)

\* The client builds a llama_adapter_model_params value.
SetModelParams(v) ==
    /\ phase = "run"
    /\ v \in StructValues("llama_adapter_model_params")
    /\ mparams' = [set |-> TRUE, v |-> v]
    /\ UNCHANGED <<phase, tuVars, runVars, cparams, sparams>>

\* The client builds a llama_adapter_context_params value.
SetContextParams(v) ==
    /\ phase = "run"
    /\ v \in StructValues("llama_adapter_context_params")
    /\ cparams' = [set |-> TRUE, v |-> v]
    /\ UNCHANGED <<phase, tuVars, runVars, mparams, sparams>>

\* The client builds a llama_adapter_sampling_params value.
SetSamplingParams(v) ==
    /\ phase = "run"
    /\ v \in StructValues("llama_adapter_sampling_params")
    /\ sparams' = [set |-> TRUE, v |-> v]
    /\ UNCHANGED <<phase, tuVars, runVars, mparams, cparams>>

BuildModelParams == \E v \in StructValues("llama_adapter_model_params") : SetModelParams(v)
BuildContextParams == \E v \in StructValues("llama_adapter_context_params") : SetContextParams(v)
BuildSamplingParams == \E v \in StructValues("llama_adapter_sampling_params") : SetSamplingParams(v)

---------------------------------------------------------------------------

NoParams == [set |-> FALSE, v |-> <<>>]

Init ==
    /\ phase = "translate"
    /\ pc = 0
    /\ included = 0
    /\ macros \in {{}, {"__cplusplus"}}
    /\ cond = <<>>
    /\ linkage = IF "__cplusplus" \in macros THEN <<"C++">> ELSE <<"C">>
    /\ inStruct = FALSE
    /\ cur = <<>>
    /\ typedefs = IF "__cplusplus" \in macros
                  THEN <<TD("bool", "system", "", <<>>)>> ELSE <<>>
    /\ functions = <<>>
    /\ calls = <<>>
    /\ models = {}
    /\ contexts = {}
    /\ mparams = NoParams
    /\ cparams = NoParams
    /\ sparams = NoParams

\* A translation unit that includes the header, and a client calling into it.
Next == Include \/ Line \/ EndOfHeader \/ Run \/ CallAny

Spec == Init /\ [][Next]_vars

\* A translation unit that includes the header once, and a client building
\* parameter values; it holds no handles.
RunParams ==
    /\ Run
    /\ included = 1
    /\ models' = {}
    /\ contexts' = {}

NextParams ==
    Include \/ Line \/ EndOfHeader \/ RunParams
    \/ BuildModelParams \/ BuildContextParams \/ BuildSamplingParams

SpecParams == Init /\ [][NextParams]_vars

---------------------------------------------------------------------------
(* Properties *)

BackendInit == "llama_adapter_backend_init"
BackendFree == "llama_adapter_backend_free"

\* The eight prototypes the header spells only inside comments.
PlaceholderNames ==
    {"llama_adapter_load_model", "llama_adapter_free_model",
     "llama_adapter_new_context", "llama_adapter_free_context",
     "llama_adapter_tokenize", "llama_adapter_token_to_str",
     "llama_adapter_eval", "llama_adapter_sample_token"}

ModelParams == "llama_adapter_model_params"
ContextParams == "llama_adapter_context_params"
SamplingParams == "llama_adapter_sampling_params"

FunctionNames == {functions[i].name : i \in 1..Len(functions)}
Called(f) == \E i \in 1..Len(calls) : calls[i].name = f
CalledWith(f, args) == \E i \in 1..Len(calls) : calls[i].name = f /\ calls[i].args = args
StructTypedefs == {typedefs[i] : i \in {j \in 1..Len(typedefs) : typedefs[j].kind = "struct"}}
Members(td) == {td.fields[i] : i \in 1..Len(td.fields)}
MemberNames(td) == {m.name : m \in Members(td)}

\* C1: the callable operations are exactly llama_adapter_backend_init, with
\* one bool parameter, and llama_adapter_backend_free, with none: every
\* declaration is one of the two, both are declared once translation is
\* over, no call of any of the eight commented-out prototypes is ever
\* enabled, and every call made is a call of one of the two.
OnlyBackendCallable ==
    /\ \A i \in 1..Len(functions) :
          \/ functions[i].name = BackendInit /\ functions[i].params = <<"bool">>
          \/ functions[i].name = BackendFree /\ functions[i].params = <<>>
    /\ phase = "run" => FunctionNames = {BackendInit, BackendFree}
    /\ PlaceholderNames \subseteq PrototypeNames
    /\ \A f \in PlaceholderNames : f \notin FunctionNames /\ ~ENABLED Call(f)
    /\ \A i \in 1..Len(calls) : calls[i].name \in {BackendInit, BackendFree}

\* C1 witness: the client has called both declared operations.
BothBackendOpsCalled == phase = "run" /\ Called(BackendInit) /\ Called(BackendFree)

\* Pointers to non-const objects: what an out-parameter would be.
OutParamTypes == {"llama_model*", "llama_context*", "llama_token*"}

\* C2: no declared operation has an error outcome: every declared function
\* returns void and takes no pointer through which it could report one, and
\* every call made, backend_init with either use_numa or backend_free,
\* yields no value.
NoFailureOutcome ==
    /\ \A i \in 1..Len(functions) :
          /\ functions[i].ret = "void"
          /\ \A j \in 1..Len(functions[i].params) :
                functions[i].params[j] \notin OutParamTypes
    /\ \A i \in 1..Len(calls) : calls[i].ret = "void"

\* C2 witness: backend_init was called with use_numa true and with use_numa
\* false, and backend_free was called.
EveryCallFormMade ==
    /\ CalledWith(BackendInit, <<TRUE>>)
    /\ CalledWith(BackendInit, <<FALSE>>)
    /\ CalledWith(BackendFree, <<>>)

HandleTypes == {"llama_model*", "llama_context*"}

NoHandleInSignature ==
    \A i \in 1..Len(functions) :
        /\ functions[i].ret \notin HandleTypes
        /\ \A j \in 1..Len(functions[i].params) : functions[i].params[j] \notin HandleTypes

\* C3: no declared operation takes or returns a llama_model* or a
\* llama_context*, and no step of the running client (a call of a declared
\* operation) changes the set of live model handles or of live context
\* handles.
HandlesNeverChange ==
    /\ []NoHandleInSignature
    /\ [][phase = "run" => models' = models /\ contexts' = contexts]_vars

\* C3 witness: the client holds a model handle and a context handle and has
\* called backend_init and then backend_free.
HandlesHeldAcrossCalls ==
    /\ models # {}
    /\ contexts # {}
    /\ Len(calls) >= 2
    /\ calls[1].name = BackendInit
    /\ calls[2].name = BackendFree

\* C4 as claimed: every member of every parameter struct has type int32_t,
\* uint32_t or bool.
AllMembersIntegerOrBool ==
    \A td \in StructTypedefs : \A m \in Members(td) :
        m.type \in {"int32_t", "uint32_t", "bool"}

\* C4 as amended: every member of every parameter struct has type int32_t,
\* uint32_t, bool or float, and the float members are exactly temperature and
\* top_p of llama_adapter_sampling_params.
MembersIntegerBoolOrFloat ==
    \A td \in StructTypedefs :
        /\ \A m \in Members(td) : m.type \in {"int32_t", "uint32_t", "bool", "float"}
        /\ {m \in Members(td) : m.type = "float"} =
              IF td.name = SamplingParams
              THEN {[type |-> "float", name |-> "temperature"],
                    [type |-> "float", name |-> "top_p"]}
              ELSE {}

\* C4 witness: translation has declared all three parameter structs.
ThreeStructsDeclared ==
    {td.name : td \in StructTypedefs} = {ModelParams, ContextParams, SamplingParams}

\* The members section 3 of the specification enumerates, by their names in
\* the header.
EnumeratedMembers(n) ==
    CASE n = ModelParams -> {"n_gpu_layers", "use_mmap", "use_mlock", "n_threads"}
      [] n = ContextParams -> {"n_ctx", "n_batch", "n_threads", "use_metal"}
      [] n = SamplingParams -> {"temperature", "top_p", "top_k", "n_predict"}
      [] OTHER -> {}

\* C6: each parameter struct carries exactly the enumerated members, each
\* once, and once the header is included the parameter structs are the three
\* enumerated ones.
StructsCarryEnumeratedMembers ==
    /\ \A td \in StructTypedefs :
          /\ MemberNames(td) = EnumeratedMembers(td.name)
          /\ Len(td.fields) = 4
    /\ included >= 1 =>
          {td.name : td \in StructTypedefs} = {ModelParams, ContextParams, SamplingParams}

\* C6 witness: the header has been included and the program runs.
StructsDeclaredAtRun == phase = "run" /\ Cardinality(StructTypedefs) = 3

\* C7: nothing orders the calls: whatever calls the client has made, it can
\* call backend_init, with either argument, and backend_free next.  So every
\* finite sequence over the two operations is admitted.
LifecycleNotEnforced ==
    phase = "run" /\ Len(calls) < MaxCalls =>
        /\ ENABLED CallWith(BackendInit, <<TRUE>>)
        /\ ENABLED CallWith(BackendInit, <<FALSE>>)
        /\ ENABLED CallWith(BackendFree, <<>>)

\* C7 witness: backend_free before any backend_init, then two backend_init
\* with no backend_free between them and none after them.
FreeThenTwoInits ==
    /\ Len(calls) = 3
    /\ calls[1].name = BackendFree
    /\ calls[2].name = BackendInit
    /\ calls[3].name = BackendInit

\* The candidate values within each integer type's range.
Int32Values == {-1, 0, 2147483647}
UInt32Values == {0, 2147483647}

\* C8: every combination of member values within the members' declared types
\* can be built, for each of the three parameter structs: each member ranges
\* over its whole type whatever the other members and the other structs hold.
NoParamsValidation ==
    phase = "run" =>
        /\ \A v \in Int32Values \X BOOLEAN \X BOOLEAN \X Int32Values :
              ENABLED (SetModelParams(v) /\ mparams'.v = v)
        /\ \A v \in UInt32Values \X UInt32Values \X Int32Values \X BOOLEAN :
              ENABLED (SetContextParams(v) /\ cparams'.v = v)
        /\ \A v \in FloatCandidates \X FloatCandidates \X Int32Values \X Int32Values :
              ENABLED (SetSamplingParams(v) /\ sparams'.v = v)

\* C8 witness: the client holds model parameters with negative n_gpu_layers
\* and n_threads, context parameters with n_ctx 0, n_batch greater than
\* n_ctx and an n_threads other than the model parameters', and sampling
\* parameters with negative top_k and n_predict.
DegenerateParamsHeld ==
    /\ mparams.set /\ cparams.set /\ sparams.set
    /\ mparams.v[1] < 0 /\ mparams.v[4] < 0
    /\ cparams.v[1] = 0 /\ cparams.v[2] > cparams.v[1]
    /\ cparams.v[3] # mparams.v[4]
    /\ sparams.v[3] < 0 /\ sparams.v[4] < 0

NoRedeclaration ==
    /\ \A i, j \in 1..Len(typedefs) : typedefs[i].name = typedefs[j].name => i = j
    /\ \A i, j \in 1..Len(functions) : functions[i].name = functions[j].name => i = j

\* C9: including the header is idempotent: once it has been included, no
\* later step (a further inclusion) changes the declared types or functions,
\* and no typedef and no function is ever declared twice.
IncludeIdempotent ==
    /\ []NoRedeclaration
    /\ [][included >= 1 => typedefs' = typedefs /\ functions' = functions]_vars

\* C9 witness: the header has been included a second time, to its end.
IncludedAgain == included >= 2 /\ pc = 0 /\ Len(typedefs) > 0 /\ Len(functions) > 0

====
